---- MODULE Spec2Model ----
(***************************************************************************)
(* The Slack identity-verification provider of oauth2_proxy.               *)
(*                                                                         *)
(* Two builds of SlackProvider exist in the sources: providers/slack.go    *)
(* (SecondAttempt probes auth.test and reads the X-Oauth-Scopes header,    *)
(* GetLoginURL takes a `second` flag) and the build kept in                *)
(* unnamed/part_000 (SecondAttempt reads and overwrites p.Scope).  The     *)
(* variable `build` says which one a run is about.                         *)
(*                                                                         *)
(* A Go string is modelled as a sequence of segments, "" as << >>, so that *)
(* strings.Contains is a real substring search: "usergroups:read" is       *)
(* <<"user", "groups", ":read">> and contains <<"groups", ":read">>.       *)
(***************************************************************************)
EXTENDS Integers, Sequences, FiniteSets, TLC

VARIABLES
    build,      \* which SlackProvider source the provider instance runs
    TeamID,     \* SlackProvider.TeamID
    GroupID,    \* SlackProvider.GroupID
    Scope,      \* ProviderData.Scope
    LoginQuery, \* ProviderData.LoginURL.RawQuery
    serving,    \* FALSE while the operator configures, TRUE once requests run
    sessions,   \* the users that run a login sequence
    upIdentity, \* what the upstream answers to users.identity
    upGroups,   \* what the upstream answers to groups.list
    pc,         \* per user: the state of the login sequence
    logins,     \* per user: the login URLs built so far, in order
    granted,    \* per user: the scopes of the token the user holds
    probe,      \* per user: how auth.test answers for that token
    tries,      \* per user: the SecondAttempt calls made, in order
    solo,       \* per user: p.Scope as it would be had no other user run
    ver,        \* per user: the GetEmailAddress calls made, in order
    configured, \* p.Scope as NewSlackProvider left it
    SpaceID,    \* SpacesProvider.SpaceID
    log,        \* the lines written to the log and to stdout (their set)
    call,       \* the last direct call of a method: its argument and result
    sets        \* the direct calls of SetTeamID and SetGroupID, in order

vars == <<build, TeamID, GroupID, Scope, LoginQuery, serving, sessions,
          upIdentity, upGroups, pc, logins, granted, probe, tries, solo, ver,
          configured, SpaceID, log, call, sets>>

(***************************************************************************)
(* Bounds                                                                  *)
(***************************************************************************)
MaxLogins == 2
MaxVerify == 2

Users == {"u1", "u2"}
Builds == {"slack.go", "part_000"}

(***************************************************************************)
(* Strings                                                                 *)
(***************************************************************************)
Empty == << >>
T1 == <<"T1">>
T2 == <<"T2">>
G1 == <<"G1">>
G2 == <<"G2">>
Mail == <<"a@x.com">>
TeamArgs == {Empty, T1, T2}
GroupArgs == {Empty, G1, G2}

\* strings.Contains(s, sub)
Contains(s, sub) ==
    \E i \in 1..(Len(s) - Len(sub) + 1) : SubSeq(s, i, i + Len(sub) - 1) = sub

\* strings.Join(list, sep)
RECURSIVE Join(_, _)
Join(list, sep) ==
    IF list = << >> THEN << >>
    ELSE IF Len(list) = 1 THEN list[1]
    ELSE list[1] \o sep \o Join(Tail(list), sep)

IdentityBasic == <<"identity.basic">>
IdentityEmail == <<"identity.email">>
UserGroupsRead == <<"user", "groups", ":read">>
\* the scope NewSlackProvider falls back to
DefaultScope == <<"identity.basic", " ", "identity.email">>
\* the scope the second login asks for
GroupsRead == <<"groups", ":read">>
\* the marker SecondAttempt looks for in X-Oauth-Scopes
GroupsMarker == <<"groups">>

(***************************************************************************)
(* url.Values: a function from keys to the sequence of the key's values.   *)
(***************************************************************************)
NoValues == [k \in {} |-> << >>]

\* the keys in the order Encode writes them (sorted by key)
KeyOrder == <<"approval_prompt", "client_id", "exclude_archived", "exclude_members",
              "redirect_uri", "response_type", "scope", "state", "team", "token">>

ValuesSet(v, k, x) ==
    [kk \in DOMAIN v \cup {k} |-> IF kk = k THEN <<x>> ELSE v[kk]]

ValuesAdd(v, k, x) ==
    [kk \in DOMAIN v \cup {k} |->
        IF kk = k THEN (IF k \in DOMAIN v THEN Append(v[k], x) ELSE <<x>>)
        ELSE v[kk]]

RECURSIVE EncodeFrom(_, _)
EncodeFrom(v, i) ==
    IF i > Len(KeyOrder) THEN << >>
    ELSE LET k == KeyOrder[i]
             here == IF k \in DOMAIN v
                     THEN [j \in 1..Len(v[k]) |-> <<k, v[k][j]>>]
                     ELSE << >>
         IN here \o EncodeFrom(v, i + 1)

\* url.Values.Encode: key=value pairs, sorted by key
Encode(v) == EncodeFrom(v, 1)

RECURSIVE ParseFrom(_, _)
ParseFrom(q, acc) ==
    IF q = << >> THEN acc
    ELSE ParseFrom(Tail(q), ValuesAdd(acc, q[1][1], q[1][2]))

\* url.ParseQuery
ParseQuery(q) == ParseFrom(q, NoValues)

(***************************************************************************)
(* The upstream                                                            *)
(***************************************************************************)
\* how a GET can end: http.Client.Do fails, the status is not 200, the body
\* is no JSON of the wanted shape, or the body decodes
Failures == {"transport", "status", "malformed"}

\* a response item as Go leaves it when nothing was decoded into it
ZeroIdentity == [OK |-> FALSE, team |-> Empty, email |-> Empty]
IdentityBodies ==
    { [OK |-> FALSE, team |-> T1, email |-> Mail],
      [OK |-> TRUE, team |-> T1, email |-> Mail],
      [OK |-> TRUE, team |-> T2, email |-> Mail],
      [OK |-> TRUE, team |-> T1, email |-> Empty] }
IdentityAnswers ==
    {[kind |-> k, body |-> ZeroIdentity, header |-> Empty] : k \in Failures}
        \cup {[kind |-> "json", body |-> b, header |-> Empty] : b \in IdentityBodies}

ZeroGroups == [OK |-> FALSE, groups |-> << >>]
GroupBodies ==
    { [OK |-> FALSE, groups |-> <<G1>>],
      [OK |-> TRUE, groups |-> << >>],
      [OK |-> TRUE, groups |-> <<G1>>],
      [OK |-> TRUE, groups |-> <<G2, G1>>] }
GroupAnswers ==
    {[kind |-> k, body |-> ZeroGroups, header |-> Empty] : k \in Failures}
        \cup {[kind |-> "json", body |-> b, header |-> Empty] : b \in GroupBodies}

\* the scopes a token can carry
Grants ==
    { <<IdentityBasic, IdentityEmail>>,
      <<IdentityBasic, IdentityEmail, GroupsRead>>,
      <<IdentityBasic, UserGroupsRead>> }

\* the X-Oauth-Scopes header of a token with these scopes
ScopesHeader(g) == Join(g, <<",">>)

\* how auth.test can answer for a token
ProbeKinds == {"json", "status"}

\* what auth.test answers for a token with scopes g
ProbeAnswer(kind, g) ==
    [kind |-> kind, body |-> [OK |-> kind = "json"], header |-> ScopesHeader(g)]

Token(u) == <<"xoxp", u>>

(***************************************************************************)
(* SlackProvider                                                           *)
(***************************************************************************)
ValidatePath == <<"/api">>

\* getEndpoint: the request it sends and what comes of the upstream's answer
getEndpoint(endpointName, accessToken, params, answer) ==
    LET p1 == ValuesAdd(params, "token", accessToken)
        req == [path |-> ValidatePath \o <<"/">> \o endpointName, query |-> Encode(p1)]
    IN  [req |-> req,
         err |-> IF answer.kind = "json" THEN "nil" ELSE answer.kind,
         item |-> answer.body,
         header |-> answer.header]

getIdentity(accessToken, answer) ==
    LET r == getEndpoint(<<"users.identity">>, accessToken, NoValues, answer)
    IN  IF r.err # "nil" THEN [req |-> r.req, err |-> r.err, item |-> ZeroIdentity]
        ELSE IF r.item.OK THEN [req |-> r.req, err |-> "nil", item |-> r.item]
        ELSE [req |-> r.req, err |-> "slack response is not ok", item |-> ZeroIdentity]

\* GroupParams as a map kept between calls: getEndpoint adds the token to
\* the map it is given, so a second call would find the first call's token
GroupParamsShared ==
    LET fresh == ValuesSet(ValuesSet(NoValues, "exclude_archived", <<"true">>),
                           "exclude_members", <<"true">>)
    IN  IF \E u \in Users : ver[u] # << >>
        THEN ValuesAdd(fresh, "token", Token(CHOOSE u \in Users : ver[u] # << >>))
        ELSE fresh

GroupParams ==
    ValuesSet(ValuesSet(NoValues, "exclude_archived", <<"true">>),
              "exclude_members", <<"true">>)

\* getGroups without its test of the envelope's ok flag
getGroupsAnyOK(accessToken, answer) ==
    LET r == getEndpoint(<<"groups.list">>, accessToken, GroupParams, answer)
    IN  IF r.err # "nil" THEN [req |-> r.req, err |-> r.err, item |-> ZeroGroups]
        ELSE [req |-> r.req, err |-> "nil", item |-> r.item]

getGroups(accessToken, answer) ==
    LET r == getEndpoint(<<"groups.list">>, accessToken, GroupParams, answer)
    IN  IF r.err # "nil" THEN [req |-> r.req, err |-> r.err, item |-> ZeroGroups]
        ELSE IF r.item.OK THEN [req |-> r.req, err |-> "nil", item |-> r.item]
        ELSE [req |-> r.req, err |-> "slack response is not ok", item |-> ZeroGroups]

\* hasTeamID comparing without regard to case
hasTeamIDFold(resp, team) ==
    LET ToUpper(str) == [i \in 1..Len(str) |-> IF str[i] = "t1" THEN "T1" ELSE str[i]]
    IN  ToUpper(resp.team) = ToUpper(team)

hasTeamID(resp, team) == resp.team = team

\* hasGroupID looking at the first group only
hasGroupIDFirst(resp, group) == Len(resp.groups) > 0 /\ resp.groups[1] = group

hasGroupID(resp, group) == \E i \in 1..Len(resp.groups) : resp.groups[i] = group

\* GetEmailAddress with the group check ahead of the team check
EmailAddressGroupFirst(team, group, accessToken, idAnswer, grpAnswer) ==
    LET id == getIdentity(accessToken, idAnswer)
        gr == getGroups(accessToken, grpAnswer)
    IN  IF id.err # "nil"
        THEN [email |-> Empty, err |-> "nil", calls |-> <<id.req>>]
        ELSE IF group # Empty /\ gr.err # "nil"
        THEN [email |-> Empty, err |-> "nil", calls |-> <<id.req, gr.req>>]
        ELSE IF group # Empty /\ ~hasGroupID(gr.item, group)
        THEN [email |-> Empty, err |-> "group id doesn't match",
              calls |-> <<id.req, gr.req>>]
        ELSE IF team # Empty /\ ~hasTeamID(id.item, team)
        THEN [email |-> Empty, err |-> "team id doesn't match",
              calls |-> IF group # Empty THEN <<id.req, gr.req>> ELSE <<id.req>>]
        ELSE [email |-> id.item.email, err |-> "nil",
              calls |-> IF group # Empty THEN <<id.req, gr.req>> ELSE <<id.req>>]

\* GetEmailAddress asking for the groups before it looks at the identity
\* call's error
EmailAddressEager(team, group, accessToken, idAnswer, grpAnswer) ==
    LET id == getIdentity(accessToken, idAnswer)
        gr == getGroups(accessToken, grpAnswer)
        sent == IF group # Empty THEN <<id.req, gr.req>> ELSE <<id.req>>
    IN  IF id.err # "nil"
        THEN [email |-> Empty, err |-> "nil", calls |-> sent]
        ELSE IF team # Empty /\ ~hasTeamID(id.item, team)
        THEN [email |-> Empty, err |-> "team id doesn't match", calls |-> sent]
        ELSE IF group # Empty /\ gr.err # "nil"
        THEN [email |-> Empty, err |-> "nil", calls |-> sent]
        ELSE IF group # Empty /\ ~hasGroupID(gr.item, group)
        THEN [email |-> Empty, err |-> "group id doesn't match", calls |-> sent]
        ELSE [email |-> id.item.email, err |-> "nil", calls |-> sent]

\* GetEmailAddress: the email and error it returns, the upstream requests it
\* sent (in order)
EmailAddress(team, group, accessToken, idAnswer, grpAnswer) ==
    LET id == getIdentity(accessToken, idAnswer)
        gr == getGroups(accessToken, grpAnswer)
    IN  IF id.err # "nil"
        THEN [email |-> Empty, err |-> "nil", calls |-> <<id.req>>]
        ELSE IF team # Empty /\ ~hasTeamID(id.item, team)
        THEN [email |-> Empty, err |-> "team id doesn't match", calls |-> <<id.req>>]
        ELSE IF group # Empty /\ gr.err # "nil"
        THEN [email |-> Empty, err |-> "nil", calls |-> <<id.req, gr.req>>]
        ELSE IF group # Empty /\ ~hasGroupID(gr.item, group)
        THEN [email |-> Empty, err |-> "group id doesn't match",
              calls |-> <<id.req, gr.req>>]
        ELSE [email |-> id.item.email, err |-> "nil",
              calls |-> IF group # Empty THEN <<id.req, gr.req>> ELSE <<id.req>>]

\* GetEmailAddress: the lines it writes with log.Printf
EmailAddressLog(team, group, accessToken, idAnswer, grpAnswer) ==
    LET id == getIdentity(accessToken, idAnswer)
        gr == getGroups(accessToken, grpAnswer)
    IN  IF id.err # "nil" THEN {}
        ELSE IF team # Empty /\ ~hasTeamID(id.item, team)
        THEN {<<"teamid: ">> \o id.item.team \o <<" does not match with ">> \o team}
        ELSE IF group # Empty /\ gr.err # "nil" THEN {}
        ELSE IF group # Empty /\ ~hasGroupID(gr.item, group)
        THEN {<<"groupid: [">> \o Join(gr.item.groups, <<" ">>)
                \o <<"] does not match with ">> \o group}
        ELSE {}

(***************************************************************************)
(* Scope escalation                                                        *)
(***************************************************************************)
\* SecondAttempt of slack.go with && for ||
SecondAttemptProbeAnd(group, accessToken, answer) ==
    LET r == getEndpoint(<<"auth.test">>, accessToken, NoValues, answer)
    IN  IF r.err # "nil" THEN FALSE
        ELSE IF Contains(r.header, GroupsMarker) /\ group = Empty THEN FALSE
        ELSE TRUE

\* SecondAttempt of slack.go
SecondAttemptProbe(group, accessToken, answer) ==
    LET r == getEndpoint(<<"auth.test">>, accessToken, NoValues, answer)
    IN  IF r.err # "nil" THEN FALSE
        ELSE IF Contains(r.header, GroupsMarker) \/ group = Empty THEN FALSE
        ELSE TRUE

\* SecondAttempt of part_000 looking for the scope it was configured with
\* where it should look for "groups:read"
SecondAttemptScopeStale(scope, group) ==
    IF Contains(scope, IdentityBasic) \/ group = Empty THEN FALSE ELSE TRUE

\* SecondAttempt of part_000: the test on p.Scope; TRUE when it goes on to
\* overwrite p.Scope and report "retry"
SecondAttemptScope(scope, group) ==
    IF Contains(scope, GroupsRead) \/ group = Empty THEN FALSE ELSE TRUE

RedirectURI == <<"https://proxy/oauth2/callback">>
ApprovalPrompt == <<"force">>
ClientID == <<"client">>
State(u) == <<"nonce", u>>

\* GetLoginURL of slack.go adding the provider's scope on the second try too
LoginURLSameScope(loginQuery, scope, redirectURI, state, second) ==
    LET p0 == ParseQuery(loginQuery)
        p1 == ValuesSet(p0, "redirect_uri", redirectURI)
        p2 == ValuesSet(p1, "approval_prompt", ApprovalPrompt)
        p3 == ValuesAdd(p2, "scope", scope)
        p4 == ValuesSet(p3, "client_id", ClientID)
        p5 == ValuesSet(p4, "response_type", <<"code">>)
        p6 == ValuesAdd(p5, "state", state)
    IN  Encode(p6)

\* GetLoginURL of slack.go: the query of the URL it returns
LoginURL(loginQuery, scope, redirectURI, state, second) ==
    LET p0 == ParseQuery(loginQuery)
        p1 == ValuesSet(p0, "redirect_uri", redirectURI)
        p2 == ValuesSet(p1, "approval_prompt", ApprovalPrompt)
        p3 == IF second THEN ValuesSet(p2, "scope", GroupsRead)
              ELSE ValuesAdd(p2, "scope", scope)
        p4 == ValuesSet(p3, "client_id", ClientID)
        p5 == ValuesSet(p4, "response_type", <<"code">>)
        p6 == ValuesAdd(p5, "state", state)
    IN  Encode(p6)

\* the login URL of part_000, which has no GetLoginURL of its own: the
\* provider's scope in the scope parameter
BaseLoginURL(loginQuery, scope, redirectURI, state) ==
    LoginURL(loginQuery, scope, redirectURI, state, FALSE)

\* the login URL a build hands out
BuildLoginURL(b, loginQuery, scope, u, second) ==
    IF b = "slack.go" THEN LoginURL(loginQuery, scope, RedirectURI, State(u), second)
    ELSE BaseLoginURL(loginQuery, scope, RedirectURI, State(u))

(***************************************************************************)
(* The provider as a state machine                                         *)
(***************************************************************************)
\* the scope the operator configured (NewSlackProvider fills in the default)
ConfiguredScopes ==
    { DefaultScope,
      <<"identity.basic", " ", "groups", ":read">>,
      <<"identity.basic", " ", "user", "groups", ":read">> }

\* no method was called directly
NoCall == [fn |-> "none", arg |-> Empty, ret |-> Empty]

InitWith(S, Scopes, Queries, Ids, Grps) ==
    /\ build \in Builds
    /\ TeamID = Empty
    /\ GroupID = Empty
    /\ Scope \in Scopes
    /\ LoginQuery \in Queries
    /\ serving = FALSE
    /\ sessions = S
    /\ upIdentity \in Ids
    /\ upGroups \in Grps
    /\ pc = [u \in Users |-> "Initial"]
    /\ logins = [u \in Users |-> << >>]
    /\ granted = [u \in Users |-> << >>]
    /\ probe = [u \in Users |-> "json"]
    /\ tries = [u \in Users |-> << >>]
    /\ solo = [u \in Users |-> Scope]
    /\ ver = [u \in Users |-> << >>]
    /\ configured = Scope
    /\ SpaceID = Empty
    /\ log = {}
    /\ call = NoCall
    /\ sets = << >>

\* one login sequence, every answer of the upstream
Init == InitWith({"u1"}, ConfiguredScopes, {<< >>}, IdentityAnswers, GroupAnswers)

\* SetTeamID adding one more team parameter to the query
TeamQueryAdd(loginQuery, team) ==
    Encode(ValuesAdd(ParseQuery(loginQuery), "team", team))

\* SetTeamID: the query of the login URL with the team set
TeamQuery(loginQuery, team) ==
    Encode(ValuesSet(ParseQuery(loginQuery), "team", team))

\* SetTeamID; `call` and `sets` are left to the caller
SetTeamID(team) ==
    /\ ~serving
    /\ IF team # Empty
       THEN /\ TeamID' = team
            /\ LoginQuery' = TeamQuery(LoginQuery, team)
       ELSE UNCHANGED <<TeamID, LoginQuery>>
    /\ UNCHANGED <<configured, SpaceID, log, build, GroupID, Scope, serving, sessions,
                   upIdentity, upGroups, pc, logins, granted, probe, tries, solo, ver>>

\* SetGroupID; `call` and `sets` are left to the caller
SetGroupID(group) ==
    /\ ~serving
    /\ IF group # Empty THEN GroupID' = group ELSE UNCHANGED GroupID
    /\ UNCHANGED <<configured, SpaceID, log, build, TeamID, Scope, LoginQuery, serving,
                   sessions, upIdentity, upGroups, pc, logins, granted, probe, tries,
                   solo, ver>>

\* the operator is done configuring; requests are handled from here on
Serve ==
    /\ ~serving
    /\ serving' = TRUE
    /\ UNCHANGED <<configured, sets, SpaceID, log, call, build, TeamID, GroupID, Scope, LoginQuery, sessions, upIdentity,
                   upGroups, pc, logins, granted, probe, tries, solo, ver>>

\* the proxy builds the login URL: the first of a sequence, or the one after
\* SecondAttempt said "retry"
GetLoginURL(u) ==
    /\ serving
    /\ u \in sessions
    /\ pc[u] \in {"Initial", "Escalated"}
    /\ Len(logins[u]) < MaxLogins
    /\ LET second == pc[u] = "Escalated"
       IN  logins' = [logins EXCEPT ![u] = Append(@,
               [url |-> BuildLoginURL(build, LoginQuery, Scope, u, second),
                alone |-> BuildLoginURL(build, LoginQuery, solo[u], u, second)])]
    /\ pc' = [pc EXCEPT ![u] = "LoginSent"]
    /\ UNCHANGED <<configured, sets, SpaceID, log, call, build, TeamID, GroupID, Scope, LoginQuery, serving, sessions,
                   upIdentity, upGroups, granted, probe, tries, solo, ver>>

\* the user comes back with a token: the upstream decides its scopes and how
\* auth.test will answer for it
TokenReceipt(u) ==
    /\ pc[u] = "LoginSent"
    /\ \E g \in Grants, k \in ProbeKinds :
            /\ granted' = [granted EXCEPT ![u] = g]
            /\ probe' = [probe EXCEPT ![u] = k]
    /\ pc' = [pc EXCEPT ![u] = "AwaitingScopeCheck"]
    /\ UNCHANGED <<configured, sets, SpaceID, log, call, build, TeamID, GroupID, Scope, LoginQuery, serving, sessions,
                   upIdentity, upGroups, logins, tries, solo, ver>>

\* what a SecondAttempt call is recorded as
Try(u, ret, scopeRead, aloneRet) ==
    [ret |-> ret, scope |-> scopeRead, granted |-> granted[u], probe |-> probe[u],
     group |-> GroupID, alone |-> aloneRet]

\* SecondAttempt of slack.go
SecondAttemptSlack(u) ==
    /\ build = "slack.go"
    /\ pc[u] = "AwaitingScopeCheck"
    /\ LET ret == SecondAttemptProbe(GroupID, Token(u), ProbeAnswer(probe[u], granted[u]))
       IN  /\ tries' = [tries EXCEPT ![u] = Append(@, Try(u, ret, Scope, ret))]
           /\ pc' = [pc EXCEPT ![u] = IF ret THEN "Escalated" ELSE "Satisfied"]
    /\ UNCHANGED <<configured, sets, SpaceID, log, call, build, TeamID, GroupID, Scope, LoginQuery, serving, sessions,
                   upIdentity, upGroups, logins, granted, probe, solo, ver>>

\* SecondAttempt of part_000, up to its test of p.Scope, which decides what it
\* returns: false, or (after writing p.Scope) true.  Nothing orders the read
\* and the write of two requests, so they are two steps.
SecondAttemptRead(u) ==
    /\ build = "part_000"
    /\ pc[u] = "AwaitingScopeCheck"
    /\ LET ret == SecondAttemptScope(Scope, GroupID)
       IN  /\ tries' = [tries EXCEPT ![u] =
                   Append(@, Try(u, ret, Scope, SecondAttemptScope(solo[u], GroupID)))]
           /\ pc' = [pc EXCEPT ![u] = IF ret THEN "Writing" ELSE "Satisfied"]
    /\ log' = log \cup {GroupID}
    /\ UNCHANGED <<configured, sets, SpaceID, call, build, TeamID, GroupID, Scope, LoginQuery, serving, sessions,
                   upIdentity, upGroups, logins, granted, probe, solo, ver>>

\* SecondAttempt of part_000, the rest: p.Scope = "groups:read"; return true
SecondAttemptWrite(u) ==
    /\ build = "part_000"
    /\ pc[u] = "Writing"
    /\ Scope' = GroupsRead
    /\ solo' = [solo EXCEPT ![u] =
            IF SecondAttemptScope(solo[u], GroupID) THEN GroupsRead ELSE @]
    /\ pc' = [pc EXCEPT ![u] = "Escalated"]
    /\ UNCHANGED <<configured, sets, SpaceID, log, call, build, TeamID, GroupID, LoginQuery, serving, sessions,
                   upIdentity, upGroups, logins, granted, probe, tries, ver>>

\* GetEmailAddress for the session of u
GetEmailAddress(u) ==
    /\ pc[u] \in {"AwaitingScopeCheck", "Escalated", "Satisfied"}
    /\ Len(ver[u]) < MaxVerify
    /\ ver' = [ver EXCEPT ![u] =
            Append(@, EmailAddress(TeamID, GroupID, Token(u), upIdentity, upGroups))]
    /\ log' = log \cup EmailAddressLog(TeamID, GroupID, Token(u), upIdentity, upGroups)
    /\ UNCHANGED <<configured, sets, SpaceID, call, build, TeamID, GroupID, Scope, LoginQuery, serving, sessions,
                   upIdentity, upGroups, pc, logins, granted, probe, tries, solo>>

Next ==
    \/ \E team \in TeamArgs : SetTeamID(team) /\ UNCHANGED <<call, sets>>
    \/ \E group \in GroupArgs : SetGroupID(group) /\ UNCHANGED <<call, sets>>
    \/ Serve
    \/ \E u \in Users : GetLoginURL(u)
    \/ \E u \in Users : TokenReceipt(u)
    \/ \E u \in Users : SecondAttemptSlack(u)
    \/ \E u \in Users : SecondAttemptRead(u)
    \/ \E u \in Users : SecondAttemptWrite(u)
    \/ \E u \in Users : GetEmailAddress(u)

Spec == Init /\ [][Next]_vars

\* two login sequences against one provider instance with the default scope,
\* one answer of the identity and group endpoints
InitTwo ==
    InitWith(Users, {DefaultScope}, {<< >>},
             {[kind |-> "json", body |-> [OK |-> TRUE, team |-> T1, email |-> Mail],
               header |-> Empty]},
             {[kind |-> "json", body |-> [OK |-> TRUE, groups |-> <<G1>>],
               header |-> Empty]})

SpecTwo == InitTwo /\ [][Next]_vars

(***************************************************************************)
(* The methods of the SlackProvider of slack.go called one by one           *)
(***************************************************************************)
MaxSets == 2

\* the team ids an identity envelope can carry, one differing from T1 in case
CallTeams == {Empty, T1, T2, <<"t1">>}
\* the group lists groups.list can answer, one with an entry without an id
CallGroupLists == {<< >>, <<G1>>, <<G2, G1>>, <<Empty>>}
\* the query the operator's login URL can start with
CallQueries == {<< >>, <<<<"team", T1>>, <<"team", T2>>>>}

InitCalls ==
    /\ InitWith({}, {DefaultScope}, CallQueries,
                {[kind |-> "json", body |-> [OK |-> TRUE, team |-> t, email |-> Mail],
                  header |-> Empty] : t \in CallTeams},
                {[kind |-> "json", body |-> [OK |-> TRUE, groups |-> l],
                  header |-> Empty] : l \in CallGroupLists})
    /\ build = "slack.go"

CallSetTeamID(team) ==
    /\ Len(sets) < MaxSets
    /\ SetTeamID(team)
    /\ call' = [fn |-> "SetTeamID", arg |-> team, ret |-> Empty]
    /\ sets' = Append(sets, [fn |-> "SetTeamID", arg |-> team])

CallSetGroupID(group) ==
    /\ Len(sets) < MaxSets
    /\ SetGroupID(group)
    /\ call' = [fn |-> "SetGroupID", arg |-> group, ret |-> Empty]
    /\ sets' = Append(sets, [fn |-> "SetGroupID", arg |-> group])

\* hasTeamID on the envelope the upstream answers
CallHasTeamID ==
    /\ call' = [fn |-> "hasTeamID", arg |-> upIdentity.body.team,
                ret |-> hasTeamID(upIdentity.body, TeamID)]
    /\ UNCHANGED <<configured, sets, SpaceID, log, build, TeamID, GroupID, Scope,
                   LoginQuery, serving, sessions, upIdentity, upGroups, pc, logins,
                   granted, probe, tries, solo, ver>>

\* hasGroupID on the group list the upstream answers
CallHasGroupID ==
    /\ call' = [fn |-> "hasGroupID", arg |-> upGroups.body.groups,
                ret |-> hasGroupID(upGroups.body, GroupID)]
    /\ UNCHANGED <<configured, sets, SpaceID, log, build, TeamID, GroupID, Scope,
                   LoginQuery, serving, sessions, upIdentity, upGroups, pc, logins,
                   granted, probe, tries, solo, ver>>

CallGetEmailAddress ==
    /\ call' = [fn |-> "GetEmailAddress", arg |-> Empty,
                ret |-> EmailAddress(TeamID, GroupID, Token("u1"), upIdentity, upGroups)]
    /\ log' = log \cup EmailAddressLog(TeamID, GroupID, Token("u1"), upIdentity, upGroups)
    /\ UNCHANGED <<configured, sets, SpaceID, build, TeamID, GroupID, Scope,
                   LoginQuery, serving, sessions, upIdentity, upGroups, pc, logins,
                   granted, probe, tries, solo, ver>>

CallGetLoginURL(second) ==
    /\ call' = [fn |-> "GetLoginURL", arg |-> second,
                ret |-> LoginURL(LoginQuery, Scope, RedirectURI, State("u1"), second)]
    /\ UNCHANGED <<configured, sets, SpaceID, log, build, TeamID, GroupID, Scope,
                   LoginQuery, serving, sessions, upIdentity, upGroups, pc, logins,
                   granted, probe, tries, solo, ver>>

NextCalls ==
    \/ \E team \in TeamArgs : CallSetTeamID(team)
    \/ \E group \in GroupArgs : CallSetGroupID(group)
    \/ CallHasTeamID
    \/ CallHasGroupID
    \/ CallGetEmailAddress
    \/ \E second \in BOOLEAN : CallGetLoginURL(second)

SpecCalls == InitCalls /\ [][NextCalls]_vars

(***************************************************************************)
(* SpacesProvider                                                          *)
(***************************************************************************)
S1 == <<"S1">>
S2 == <<"S2">>
SpaceArgs == {Empty, S1, S2}
SpacesScope == <<"profile:read", " ", "spaces:read">>
SpacesValidatePath == <<"/v1">>
APIUser == <<"users/me/profile">>
\* fmt.Sprintf(p.APISpace, space)
APISpace(space) == <<"spaces/">> \o space

\* what the profile and the space endpoint can answer
ProfileAnswers ==
    {[kind |-> k, body |-> [ID |-> Empty, EMail |-> Empty]] : k \in Failures}
        \cup {[kind |-> "json", body |-> [ID |-> <<"7">>, EMail |-> m]] : m \in {Mail, Empty}}
SpaceAnswers ==
    {[kind |-> k, body |-> [ID |-> Empty]] : k \in Failures}
        \cup {[kind |-> "json", body |-> [ID |-> S1]]}

\* SpacesProvider.getEndpoint: the request it sends, the lines it prints and
\* what comes of the upstream's answer
SpacesGetEndpoint(endpointName, accessToken, answer) ==
    [req |-> [path |-> SpacesValidatePath \o <<"/">> \o endpointName,
              query |-> Encode(NoValues),
              authorization |-> <<"Bearer ">> \o accessToken],
     lines |-> {accessToken} \cup
               (IF answer.kind = "transport" THEN {}
                ELSE {<<"&{", IF answer.kind = "status" THEN "500" ELSE "200", "}">>}),
     err |-> IF answer.kind = "json" THEN "nil" ELSE answer.kind,
     item |-> answer.body]

\* SpacesProvider.GetEmailAddress asking for the space whatever the profile
\* call gave
SpacesEmailAddressEager(space, accessToken, profileAnswer, spaceAnswer) ==
    LET pr == SpacesGetEndpoint(APIUser, accessToken, profileAnswer)
        sp == SpacesGetEndpoint(APISpace(space), accessToken, spaceAnswer)
    IN  IF space # Empty
        THEN [email |-> IF pr.err = "nil" /\ sp.err = "nil" THEN pr.item.EMail ELSE Empty,
              err |-> IF pr.err # "nil" THEN pr.err ELSE sp.err,
              calls |-> <<pr.req, sp.req>>, lines |-> pr.lines \cup sp.lines]
        ELSE [email |-> pr.item.EMail, err |-> pr.err,
              calls |-> <<pr.req>>, lines |-> pr.lines]

\* SpacesProvider.GetEmailAddress: the email, the error, the requests sent
\* in order and the lines printed
SpacesEmailAddress(space, accessToken, profileAnswer, spaceAnswer) ==
    LET pr == SpacesGetEndpoint(APIUser, accessToken, profileAnswer)
        sp == SpacesGetEndpoint(APISpace(space), accessToken, spaceAnswer)
    IN  IF pr.err # "nil"
        THEN [email |-> Empty, err |-> pr.err, calls |-> <<pr.req>>, lines |-> pr.lines]
        ELSE IF space # Empty
        THEN IF sp.err # "nil"
             THEN [email |-> Empty, err |-> sp.err, calls |-> <<pr.req, sp.req>>,
                   lines |-> pr.lines \cup sp.lines]
             ELSE [email |-> pr.item.EMail, err |-> "nil", calls |-> <<pr.req, sp.req>>,
                   lines |-> pr.lines \cup sp.lines]
        ELSE [email |-> pr.item.EMail, err |-> "nil", calls |-> <<pr.req>>,
              lines |-> pr.lines]

InitSpaces ==
    /\ InitWith({}, {SpacesScope}, {<< >>},
                {[kind |-> "json", body |-> [OK |-> TRUE, team |-> T1, email |-> Mail],
                  header |-> Empty]},
                {[kind |-> "json", body |-> [OK |-> TRUE, groups |-> <<G1>>],
                  header |-> Empty]})
    /\ build = "part_000"

SetSpaceID(space) ==
    /\ SpaceID' = space
    /\ call' = [fn |-> "SetSpaceID", arg |-> space, ret |-> Empty]
    /\ UNCHANGED <<configured, sets, log, build, TeamID, GroupID, Scope,
                   LoginQuery, serving, sessions, upIdentity, upGroups, pc, logins,
                   granted, probe, tries, solo, ver>>

SpacesGetEmailAddress(u, profileAnswer, spaceAnswer) ==
    LET r == SpacesEmailAddress(SpaceID, Token(u), profileAnswer, spaceAnswer)
    IN  /\ call' = [fn |-> "GetEmailAddress",
                    arg |-> [profile |-> profileAnswer, space |-> spaceAnswer],
                    ret |-> r]
        /\ log' = log \cup r.lines
        /\ UNCHANGED <<configured, sets, SpaceID, build, TeamID, GroupID, Scope,
                       LoginQuery, serving, sessions, upIdentity, upGroups, pc, logins,
                       granted, probe, tries, solo, ver>>

NextSpaces ==
    \/ \E space \in SpaceArgs : SetSpaceID(space)
    \/ \E u \in Users, pa \in ProfileAnswers, sa \in SpaceAnswers :
            SpacesGetEmailAddress(u, pa, sa)

SpecSpaces == InitSpaces /\ [][NextSpaces]_vars

(***************************************************************************)
(* What the upstream's answers mean, read off the answers themselves       *)
(***************************************************************************)
IdentitySucceeded == upIdentity.kind = "json" /\ upIdentity.body.OK
GroupsSucceeded == upGroups.kind = "json" /\ upGroups.body.OK
TeamAllowed == TeamID = Empty \/ upIdentity.body.team = TeamID
GroupAllowed ==
    \/ GroupID = Empty
    \/ /\ GroupsSucceeded
       /\ \E i \in 1..Len(upGroups.body.groups) : upGroups.body.groups[i] = GroupID

IdentityPath == <<"/api", "/", "users.identity">>
GroupsPath == <<"/api", "/", "groups.list">>

(***************************************************************************)
(* Claims about GetEmailAddress                                            *)
(***************************************************************************)

\* C1: fail-closed.  A GetEmailAddress call returns a non-empty email only if
\* the identity call succeeded with ok=true, the team is allowed (no TeamID,
\* or team.id = TeamID) and the group is allowed (no GroupID, or groups.list
\* succeeded with ok=true and lists GroupID).
C1_FailClosed ==
    \A u \in Users : \A i \in 1..Len(ver[u]) :
        ver[u][i].email # Empty =>
            IdentitySucceeded /\ TeamAllowed /\ GroupAllowed

\* C1's case: the team check passed, then the groups.list fetch failed, and
\* no email came back
C1_Witness ==
    \E u \in Users : \E i \in 1..Len(ver[u]) :
        /\ IdentitySucceeded /\ TeamID # Empty /\ TeamAllowed
        /\ GroupID # Empty /\ upGroups.kind = "transport"
        /\ Len(ver[u][i].calls) = 2
        /\ ver[u][i].email = Empty

\* C2: with TeamID configured and the resolved identity's team.id different
\* from it, the call is denied for the team mismatch and groups.list is not
\* called, whatever GroupID is.
C2_TeamMismatchStopsBeforeGroups ==
    \A u \in Users : \A i \in 1..Len(ver[u]) :
        (IdentitySucceeded /\ TeamID # Empty /\ upIdentity.body.team # TeamID) =>
            /\ ver[u][i].email = Empty
            /\ ver[u][i].err = "team id doesn't match"
            /\ \A c \in 1..Len(ver[u][i].calls) : ver[u][i].calls[c].path # GroupsPath

\* C2's case: a team mismatch under a configured GroupID
C2_Witness ==
    \E u \in Users : \E i \in 1..Len(ver[u]) :
        /\ IdentitySucceeded /\ TeamID # Empty /\ upIdentity.body.team # TeamID
        /\ GroupID # Empty
        /\ ver[u][i].err = "team id doesn't match"

\* C8: a GetEmailAddress call returns a non-empty email with no error, or an
\* error; never an empty email with no error.
C8_EmailOrError ==
    \A u \in Users : \A i \in 1..Len(ver[u]) :
        ~(ver[u][i].email = Empty /\ ver[u][i].err = "nil")

\* C9: the upstream calls of one GetEmailAddress call: users.identity first
\* and once, groups.list at most once and only after the identity call
\* succeeded, at most two calls; a failed identity call gives no email and
\* no group call.
C9_CallsSequentialAndBounded ==
    \A u \in Users : \A i \in 1..Len(ver[u]) :
        LET calls == ver[u][i].calls
        IN  /\ Len(calls) \in {1, 2}
            /\ calls[1].path = IdentityPath
            /\ Len(calls) = 2 => calls[2].path = GroupsPath /\ IdentitySucceeded
            /\ ~IdentitySucceeded => Len(calls) = 1 /\ ver[u][i].email = Empty

\* C9's case: the identity endpoint answers with a status other than 200
\* while a group is configured
C9_Witness ==
    \E u \in Users : \E i \in 1..Len(ver[u]) :
        /\ upIdentity.kind = "status" /\ GroupID # Empty
        /\ Len(ver[u][i].calls) = 1
        /\ ver[u][i].email = Empty

RECURSIVE SplitFrom(_, _, _)
SplitFrom(s, sep, cur) ==
    IF s = << >> THEN <<cur>>
    ELSE IF Head(s) = sep THEN <<cur>> \o SplitFrom(Tail(s), sep, << >>)
    ELSE SplitFrom(Tail(s), sep, Append(cur, Head(s)))

\* the scopes a space-separated scope string names
ScopesOf(str) ==
    LET parts == SplitFrom(str, " ", << >>)
    IN  {parts[i] : i \in 1..Len(parts)} \ {Empty}

\* the scopes a login URL asks for
RequestedScopes(url) ==
    LET values == ParseQuery(url)
    IN  IF "scope" \in DOMAIN values
        THEN UNION {ScopesOf(values["scope"][i]) : i \in 1..Len(values["scope"])}
        ELSE {}

\* the token's scopes g include the scope s
HasScope(g, s) == \E i \in 1..Len(g) : g[i] = s

\* the k-th login of u got a token with every scope its URL asked for
GrantedAsAsked(u, k) ==
    \A sc \in RequestedScopes(logins[u][k].url) : HasScope(tries[u][k].granted, sc)

\* the scope a SecondAttempt call is about lacks group-read: the token's
\* scopes in slack.go, the configured scope in part_000
LacksGroupRead(t) ==
    IF build = "slack.go" THEN ~HasScope(t.granted, GroupsRead)
    ELSE GroupsRead \notin ScopesOf(t.scope)

\* the check SecondAttempt makes finds no group marker: auth.test answered
\* and its X-Oauth-Scopes has no "groups" in it (slack.go), p.Scope has no
\* "groups:read" in it (part_000)
NoMarkerSeen(t) ==
    IF build = "slack.go"
    THEN t.probe = "json" /\ ~Contains(ScopesHeader(t.granted), GroupsMarker)
    ELSE ~Contains(t.scope, GroupsRead)

C4_AtMostOneEscalation ==
    \A u \in Users :
        Cardinality({i \in 1..Len(tries[u]) : tries[u][i].ret}) <= 1

\* C5: what a login sequence sees (the SecondAttempt results, the login
\* URLs) is what it would see had no other sequence run.
C5_RequestScoped ==
    \A u \in Users :
        /\ \A i \in 1..Len(tries[u]) : tries[u][i].ret = tries[u][i].alone
        /\ \A i \in 1..Len(logins[u]) : logins[u][i].url = logins[u][i].alone

\* C6: a SecondAttempt call returns false when the scope already has
\* group-read (the token's scopes in slack.go, the configured scope in
\* part_000) and when GroupID is empty; such a sequence is not in the
\* state Escalated.
C6_NoRetryWhenSatisfied ==
    \A u \in Users : \A i \in 1..Len(tries[u]) :
        (~LacksGroupRead(tries[u][i]) \/ tries[u][i].group = Empty) =>
            /\ ~tries[u][i].ret
            /\ i = Len(tries[u]) => pc[u] \notin {"Writing", "Escalated"}

\* C6's case: a token with groups:read under a configured GroupID
C6_Witness ==
    \E u \in Users : \E i \in 1..Len(tries[u]) :
        /\ build = "slack.go" /\ tries[u][i].probe = "json"
        /\ ~LacksGroupRead(tries[u][i]) /\ tries[u][i].group # Empty
        /\ ~tries[u][i].ret
        /\ pc[u] = "Satisfied"

C11_AsClaimed ==
    call.fn = "hasTeamID" => (call.ret <=> (TeamID = Empty \/ call.arg = TeamID))

\* C11: hasTeamID returns true iff the envelope's team.id equals TeamID
\* exactly (case-sensitive, no normalization), so for an empty TeamID only
\* when team.id is empty too; the team check of GetEmailAddress, which calls
\* hasTeamID only for a non-empty TeamID, fails iff TeamID is non-empty and
\* differs from team.id.
C11_TeamCheck ==
    /\ call.fn = "hasTeamID" => (call.ret <=> (call.arg = TeamID))
    /\ call.fn = "GetEmailAddress" =>
            ((call.ret.err = "team id doesn't match")
                <=> ~(TeamID = Empty \/ upIdentity.body.team = TeamID))

\* C11's case: hasTeamID called with an empty TeamID on an envelope with a
\* team id, returning false
C11_Witness ==
    /\ call.fn = "hasTeamID"
    /\ TeamID = Empty
    /\ call.arg = T1
    /\ ~call.ret

\* C12 as stated: hasGroupID returns true iff GroupID is empty or the list
\* has an entry whose id equals GroupID.
C12_AsClaimed ==
    call.fn = "hasGroupID" =>
        (call.ret <=> (GroupID = Empty
                         \/ \E i \in 1..Len(call.arg) : call.arg[i] = GroupID))

\* C12: hasGroupID returns true iff the list has an entry whose id equals
\* GroupID, so on an empty list always false, and for an empty GroupID only
\* when an entry has an empty id; the group check of GetEmailAddress, which
\* calls hasGroupID only for a non-empty GroupID, fails iff GroupID is
\* non-empty and no entry has it.
C12_GroupCheck ==
    /\ call.fn = "hasGroupID" =>
            /\ call.ret <=> (\E i \in 1..Len(call.arg) : call.arg[i] = GroupID)
            /\ call.arg = << >> => ~call.ret
    /\ (call.fn = "GetEmailAddress" /\ call.ret.err # "team id doesn't match") =>
            ((call.ret.err = "group id doesn't match")
                <=> ~(GroupID = Empty
                        \/ \E i \in 1..Len(upGroups.body.groups) :
                                upGroups.body.groups[i] = GroupID))

\* C12's case: hasGroupID called with an empty GroupID on a list of two
\* groups, returning false
C12_Witness ==
    /\ call.fn = "hasGroupID"
    /\ GroupID = Empty
    /\ call.arg = <<G2, G1>>
    /\ ~call.ret

\* the constraint the calls of the setter fn in `sets` up to the k-th leave:
\* the argument of the last of them with a non-empty argument
RECURSIVE LastSet(_, _)
LastSet(fn, k) ==
    IF k = 0 THEN Empty
    ELSE IF sets[k].fn = fn /\ sets[k].arg # Empty THEN sets[k].arg
    ELSE LastSet(fn, k - 1)

\* the values of the team parameter in a query
TeamParams(query) ==
    LET values == ParseQuery(query)
    IN  IF "team" \in DOMAIN values THEN values["team"] ELSE << >>

\* C16: after any sequence of SetTeamID and SetGroupID calls TeamID (resp.
\* GroupID) is the argument of the last call with a non-empty argument; a
\* non-empty TeamID is the one team parameter of the stored login URL's
\* query, and of every login URL GetLoginURL builds.
C16_SetterInvariant ==
    /\ TeamID = LastSet("SetTeamID", Len(sets))
    /\ GroupID = LastSet("SetGroupID", Len(sets))
    /\ TeamID # Empty => TeamParams(LoginQuery) = <<TeamID>>
    /\ (call.fn = "GetLoginURL" /\ TeamID # Empty) => TeamParams(call.ret) = <<TeamID>>

\* C16's case: SetTeamID("T1"), then SetTeamID(""), then a login URL built
C16_Witness ==
    /\ sets = <<[fn |-> "SetTeamID", arg |-> T1], [fn |-> "SetTeamID", arg |-> Empty]>>
    /\ call.fn = "GetLoginURL"
    /\ TeamID = T1

(***************************************************************************)
(* SpacesProvider.GetEmailAddress, the log                                 *)
(***************************************************************************)
\* C17: SpacesProvider.GetEmailAddress sends the profile request first; the
\* request for spaces/<SpaceID> follows iff SpaceID is non-empty and the
\* profile call succeeded; a failing call (transport, status, malformed
\* body) ends the method with an empty email and an error, no request
\* after it; the profile's email is returned only when every request sent
\* succeeded.
C17_SpacesCalls ==
    call.fn = "GetEmailAddress" =>
        LET r == call.ret
            profileOK == call.arg.profile.kind = "json"
            spaceAsked == Len(r.calls) = 2
            spaceOK == call.arg.space.kind = "json"
        IN  /\ Len(r.calls) \in {1, 2}
            /\ r.calls[1].path = <<"/v1", "/", "users/me/profile">>
            /\ spaceAsked <=> (SpaceID # Empty /\ profileOK)
            /\ spaceAsked => r.calls[2].path = <<"/v1", "/", "spaces/">> \o SpaceID
            /\ (~profileOK \/ (spaceAsked /\ ~spaceOK)) =>
                    (r.email = Empty /\ r.err # "nil")
            /\ r.err = "nil" =>
                    (profileOK /\ (spaceAsked => spaceOK)
                        /\ r.email = call.arg.profile.body.EMail)
            /\ r.err # "nil" => r.email = Empty

\* C17's case: a space is configured, the profile call succeeds and the
\* space call fails
C17_Witness ==
    /\ call.fn = "GetEmailAddress"
    /\ SpaceID = S1
    /\ call.arg.profile.kind = "json"
    /\ call.arg.space.kind = "status"
    /\ Len(call.ret.calls) = 2
    /\ call.ret.err = "status"

\* C13: no line written to the log or to stdout contains a session's access
\* token.
C13_TokenNeverLogged ==
    \A line \in log : \A u \in Users : ~Contains(line, Token(u))

(***************************************************************************)
(* The configuration while requests are handled                            *)
(***************************************************************************)
\* C14: every step of GetEmailAddress, SecondAttempt and GetLoginURL leaves
\* TeamID, GroupID, Scope and the stored login URL's query as they were;
\* a step that changes one of them is a step of SetTeamID or SetGroupID.
C14_ConfigurationReadOnly ==
    [][/\ (\E u \in Users :
                \/ GetEmailAddress(u)
                \/ SecondAttemptSlack(u)
                \/ SecondAttemptRead(u)
                \/ SecondAttemptWrite(u)
                \/ GetLoginURL(u))
            => UNCHANGED <<TeamID, GroupID, Scope, LoginQuery>>
       /\ ~UNCHANGED <<TeamID, GroupID, Scope, LoginQuery>>
            => \/ \E team \in TeamArgs : SetTeamID(team)
               \/ \E group \in GroupArgs : SetGroupID(group)]_vars

\* the values of the scope parameter in a login URL
ScopeParams(url) ==
    LET values == ParseQuery(url)
    IN  IF "scope" \in DOMAIN values THEN values["scope"] ELSE << >>

\* C15: in every login sequence the first login URL asks for the scope the
\* provider was constructed with, and every login URL built after a "retry"
\* asks for the one scope groups:read, whatever other sequences did before.
C15_LoginScopePerState ==
    \A u \in Users :
        /\ Len(logins[u]) >= 1 => ScopeParams(logins[u][1].url) = <<configured>>
        /\ \A i \in 2..Len(logins[u]) : ScopeParams(logins[u][i].url) = <<GroupsRead>>

================================================================
